---- MODULE Spec2Model ----
(***************************************************************************)
(* Remote execution engine of the CMDB (assets/execution.py, the task      *)
(* views of assets/views.py and the process_execution_tasks command).      *)
(*                                                                         *)
(* The database tables ExecutionTask, ExecutionRun, ExecutionStage and     *)
(* ExecutionJob are sequences of rows (a row's id is its index).  Every    *)
(* ORM read (get, filter, exists) and every ORM write (create, save with   *)
(* update_fields, transaction.atomic block) is one atomic step; a handler  *)
(* that reads and later writes is several steps, and whatever it holds in  *)
(* Python objects between them is kept in its process record.              *)
(***************************************************************************)
EXTENDS Integers, Sequences, FiniteSets, TLC

\* ---------------------------------------------------------------- bounds
NumServers == 2
NumTasks == 1
MaxRuns == 2
MaxTime == 1
MaxRequests == 1
CronPeriod == 1
MaxLate == 3

\* null=True columns hold NULL; every real timestamp and exit code is >= 0
NULL == -1

Tasks == 1..NumTasks

VARIABLES
    now,        \* timezone.now(): the wall clock
    croniter,   \* whether the optional croniter import succeeded
    tasks,      \* ExecutionTask rows, with their ExecutionTaskTarget rows as "targets"
    runs,       \* ExecutionRun rows
    stages,     \* ExecutionStage rows
    jobs,       \* ExecutionJob rows
    workers,    \* the daemon threads started by start_run_async
    requests,   \* the operator's POST requests to the task views
    sched,      \* the running process_execution_tasks commands
    requested,  \* history: per run, the server list given to _prepare_stage
    invoked     \* history: per job, how often _execute_job ran for it

vars == <<now, croniter, tasks, runs, stages, jobs, workers, requests, sched,
          requested, invoked>>

\* ---------------------------------------------------------------- helpers
Range(s) == {s[i] : i \in DOMAIN s}

RECURSIVE SeqOfSet(_)
\* a set of integers as the ascending sequence (ORDER BY)
SeqOfSet(S) ==
    IF S = {} THEN << >>
    ELSE LET m == CHOOSE x \in S : \A y \in S : x <= y
         IN  <<m>> \o SeqOfSet(S \ {m})

\* the servers 1..n in descending order: the stored order of a task's targets
RECURSIVE Descending(_)
Descending(n) == IF n = 0 THEN << >> ELSE <<n>> \o Descending(n - 1)

RECURSIVE Reverse(_)
Reverse(s) == IF s = << >> THEN << >> ELSE Reverse(Tail(s)) \o <<Head(s)>>

\* ---------------------------------------------------------------- rows
\* Python's None for the optional arguments of create_run_for_task
NoServers == <<NULL>>
NoStatus == ""
\* JobResult.error is Optional[str]: NoError is None, any other value a string
NoError == "None"
\* request.user of the task views (an authenticated operator)
Operator == [id |-> 1, is_authenticated |-> TRUE]
AnonymousUser == [id |-> NULL, is_authenticated |-> FALSE]

\* ExecutionTask.is_periodic
is_periodic(task) == task.task_type = "cron"

\* ExecutionRun.is_finished
is_finished(run) == run.status \in {"success", "failed", "cancelled"}

\* the ids of the ExecutionStage rows of run r, ORDER BY order, id
StagesOf(r) == SeqOfSet({s \in DOMAIN stages : stages[s].run = r})

\* the ids of the ExecutionJob rows of stage s
JobsOf(s) == {j \in DOMAIN jobs : jobs[j].stage = s}

\* the ids of the ExecutionJob rows of every stage of run r
JobsOfRun(r) == {j \in DOMAIN jobs : jobs[j].stage \in Range(StagesOf(r))}

RECURSIVE OrderByServer(_)
\* stage.jobs.order_by('server__management_ip'): server i has the i-th address
OrderByServer(J) ==
    IF J = {} THEN << >>
    ELSE LET j == CHOOSE x \in J : \A y \in J :
                      \/ jobs[x].server < jobs[y].server
                      \/ jobs[x].server = jobs[y].server /\ x <= y
         IN  <<j>> \o OrderByServer(J \ {j})

\* ---------------------------------------------------------------- execution.py
\* A cron expression is the period of its trigger times 0, p, 2p, ...; the
\* empty expression is 0.  reference = NULL is "reference or timezone.now()".
calculate_next_run(cron_expression, reference) ==
    IF cron_expression = 0 THEN NULL
    ELSE IF ~croniter THEN NULL
    ELSE LET reference_time == IF reference = NULL THEN now ELSE reference
         IN  ((reference_time \div cron_expression) + 1) * cron_expression

NewJob(stage, server) ==
    [stage |-> stage, server |-> server, status |-> "pending", exit_code |-> NULL,
     stdout |-> "", stderr |-> "", error_message |-> "",
     started_at |-> NULL, finished_at |-> NULL]

NewStage(run) ==
    [run |-> run, name |-> "remote execution", order |-> 1, status |-> "pending",
     started_at |-> NULL, finished_at |-> NULL]

\* prepare_stage with a loop that stops one server short
prepare_stage_short(run, servers) ==
    LET stage == Len(stages) + 1
    IN  [stages |-> Append(stages, NewStage(run)),
         jobs   |-> jobs \o [i \in 1..(Len(servers) - 1) |-> NewJob(stage, servers[i])]]

\* _prepare_stage: the stage row and one job row per server, as the tables after it
prepare_stage(run, servers) ==
    LET stage == Len(stages) + 1
    IN  [stages |-> Append(stages, NewStage(run)),
         jobs   |-> jobs \o [i \in 1..Len(servers) |-> NewJob(stage, servers[i])]]

\* get_task_servers, and the same query inside create_run_for_task
get_task_servers(t) == tasks[t].targets

\* create_run_for_task that takes a scheduled_for equal to the clock for a future one
create_run_at_or_after(t, servers, scheduled_for, triggered_by, manual, status) ==
    LET resolved == IF servers = NoServers THEN tasks[t].targets ELSE servers
        run == Len(runs) + 1
        row == [task |-> t,
                status |-> IF status # NoStatus THEN status
                           ELSE IF scheduled_for # NULL /\ scheduled_for >= now
                           THEN "scheduled" ELSE "queued",
                scheduled_for |-> scheduled_for,
                started_at |-> NULL, finished_at |-> NULL,
                triggered_by |-> IF triggered_by.is_authenticated
                                 THEN triggered_by.id ELSE NULL,
                is_manual |-> manual]
    IN  IF resolved = << >>
        THEN [error |-> "ValueError", run |-> 0, servers |-> resolved,
              runs |-> runs, stages |-> stages, jobs |-> jobs]
        ELSE [error |-> "", run |-> run, servers |-> resolved,
              runs |-> Append(runs, row),
              stages |-> Append(stages, NewStage(run)),
              jobs |-> jobs \o [i \in 1..Len(resolved) |->
                                   NewJob(Len(stages) + 1, resolved[i])]]

\* create_run_for_task without its test for an empty server list
create_run_unchecked(t, servers, scheduled_for, triggered_by, manual, status) ==
    LET resolved == IF servers = NoServers THEN tasks[t].targets ELSE servers
        run == Len(runs) + 1
        row == [task |-> t,
                status |-> IF status # NoStatus THEN status
                           ELSE IF scheduled_for # NULL /\ scheduled_for > now
                           THEN "scheduled" ELSE "queued",
                scheduled_for |-> scheduled_for,
                started_at |-> NULL, finished_at |-> NULL,
                triggered_by |-> IF triggered_by.is_authenticated
                                 THEN triggered_by.id ELSE NULL,
                is_manual |-> manual]
    IN  [error |-> "", run |-> run, servers |-> resolved,
         runs |-> Append(runs, row),
         stages |-> Append(stages, NewStage(run)),
         jobs |-> jobs \o [i \in 1..Len(resolved) |->
                              NewJob(Len(stages) + 1, resolved[i])]]

\* create_run_for_task that records no identity at all
create_run_unrecorded(t, servers, scheduled_for, triggered_by, manual, status) ==
    LET resolved == IF servers = NoServers THEN get_task_servers(t) ELSE servers
        run_status ==
            IF status # NoStatus THEN status
            ELSE IF scheduled_for # NULL /\ scheduled_for > now THEN "scheduled"
            ELSE "queued"
        run == Len(runs) + 1
        row == [task |-> t, status |-> run_status, scheduled_for |-> scheduled_for,
                started_at |-> NULL, finished_at |-> NULL,
                triggered_by |-> NULL,
                is_manual |-> manual]
        prepared == prepare_stage(run, resolved)
    IN  IF resolved = << >>
        THEN [error |-> "ValueError", run |-> 0, servers |-> resolved,
              runs |-> runs, stages |-> stages, jobs |-> jobs]
        ELSE [error |-> "", run |-> run, servers |-> resolved,
              runs |-> Append(runs, row),
              stages |-> prepared.stages, jobs |-> prepared.jobs]

\* create_run_for_task: error is set when it raises ValueError, and otherwise
\* run is the new row's id and runs, stages, jobs are the tables after the
\* transaction.atomic block
create_run_for_task(t, servers, scheduled_for, triggered_by, manual, status) ==
    LET resolved == IF servers = NoServers THEN get_task_servers(t) ELSE servers
        run_status ==
            IF status # NoStatus THEN status
            ELSE IF scheduled_for # NULL /\ scheduled_for > now THEN "scheduled"
            ELSE "queued"
        run == Len(runs) + 1
        row == [task |-> t, status |-> run_status, scheduled_for |-> scheduled_for,
                started_at |-> NULL, finished_at |-> NULL,
                triggered_by |-> IF triggered_by.is_authenticated
                                 THEN triggered_by.id ELSE NULL,
                is_manual |-> manual]
        prepared == prepare_stage(run, resolved)
    IN  IF resolved = << >>
        THEN [error |-> "ValueError", run |-> 0, servers |-> resolved,
              runs |-> runs, stages |-> stages, jobs |-> jobs]
        ELSE [error |-> "", run |-> run, servers |-> resolved,
              runs |-> Append(runs, row),
              stages |-> prepared.stages, jobs |-> prepared.jobs]

\* what a caller of create_run_for_task may pass as status (None or one of
\* ExecutionRun.STATUS_CHOICES) and as scheduled_for (None or a time)
StatusArguments ==
    {NoStatus, "scheduled", "queued", "running", "success", "failed", "cancelled"}

ScheduledForArguments == {NULL} \cup 0..MaxLate

\* a call of create_run_for_task(task, scheduled_for=..., status=...) by any
\* caller, with nothing started for the run
CreateRun(t, scheduled_for, status) ==
    /\ Len(runs) < MaxRuns
    /\ LET res == create_run_for_task(t, NoServers, scheduled_for, Operator, TRUE, status)
       IN  /\ res.error = ""
           /\ runs' = res.runs
           /\ stages' = res.stages
           /\ jobs' = res.jobs
           /\ requested' = Append(requested, res.servers)
           /\ invoked' = invoked \o [i \in 1..Len(res.servers) |-> 0]
    /\ UNCHANGED <<now, croniter, tasks, workers, requests, sched>>

\* has_active_run
has_active_run(t) ==
    \E r \in DOMAIN runs : runs[r].task = t /\ runs[r].status \in {"queued", "running"}

\* the thread object start_run_async creates: _execute_run(run.id) not yet begun
NewWorker(r) ==
    [run |-> r, pc |-> "start", seen |-> "", stage |-> 0, todo |-> << >>,
     all_success |-> TRUE, finished_at |-> NULL]

\* start_run_async(run) on a run object whose in-memory status is local_status:
\* the run table after it (the thread is appended to workers by the caller)
start_run_async(rs, r, local_status) ==
    IF local_status = "scheduled" THEN [rs EXCEPT ![r].status = "queued"] ELSE rs

\* what create_run_for_task and start_run_async leave of the tables and threads
CreateAndStart(res) ==
    /\ runs' = start_run_async(res.runs, res.run, res.runs[res.run].status)
    /\ stages' = res.stages
    /\ jobs' = res.jobs
    /\ workers' = Append(workers, NewWorker(res.run))
    /\ requested' = Append(requested, res.servers)
    /\ invoked' = invoked \o [i \in 1..Len(res.servers) |-> 0]

\* ---------------------------------------------------------------- Init
\* The tasks as ExecutionTaskForm saved them (views.py 403-412): a cron task has
\* its expression and its first next_run_at, the form demands a server, and a
\* task whose target rows were removed since is no longer fresh.
TaskRows ==
    {[task_type |-> ty,
      cron_expression |-> IF ty = "cron" THEN CronPeriod ELSE 0,
      is_enabled |-> TRUE,
      last_run_at |-> NULL,
      next_run_at |-> IF ty = "cron" THEN CronPeriod ELSE NULL,
      targets |-> tg,
      fresh |-> tg # << >>] :
        ty \in {"one_off", "cron"}, tg \in {<< >>, Descending(NumServers)}}

Commands == {"pass1", "pass2"}

IdleCommand == [pc |-> "idle", now |-> NULL, runq |-> << >>, taskq |-> << >>]

Init ==
    /\ now = 0
    /\ croniter = TRUE
    /\ tasks \in [Tasks -> TaskRows]
    /\ runs = << >>
    /\ stages = << >>
    /\ jobs = << >>
    /\ workers = << >>
    /\ requests = << >>
    /\ sched = [p \in Commands |-> IdleCommand]
    /\ requested = << >>
    /\ invoked = << >>

\* ---------------------------------------------------------------- the clock
Tick ==
    /\ now < MaxTime
    /\ now' = now + 1
    /\ UNCHANGED <<croniter, tasks, runs, stages, jobs, workers, requests, sched,
                   requested, invoked>>

\* the clock where a scheduler pass may come late: as Tick, up to MaxLate
Later ==
    /\ now < MaxLate
    /\ now' = now + 1
    /\ UNCHANGED <<croniter, tasks, runs, stages, jobs, workers, requests, sched,
                   requested, invoked>>

\* ---------------------------------------------------------------- views.py
\* task_create_view after task.save() and the target rows (414-446); at is the
\* form's scheduled_datetime, which clean() found later than the clock it read
TaskCreateView(t, mode, at) ==
    /\ tasks[t].fresh
    /\ Len(runs) < MaxRuns
    /\ LET task == tasks[t]
           immediate == create_run_for_task(t, NoServers, NULL, Operator, TRUE, NoStatus)
           planned == create_run_for_task(t, NoServers, at, Operator, TRUE, NoStatus)
       IN  CASE task.task_type = "one_off" /\ mode = "immediate" ->
                  /\ at = NULL
                  /\ CreateAndStart(immediate)
                  /\ tasks' = [tasks EXCEPT ![t].fresh = FALSE]
             [] task.task_type = "one_off" /\ mode = "schedule" ->
                  /\ at # NULL
                  /\ runs' = planned.runs
                  /\ stages' = planned.stages
                  /\ jobs' = planned.jobs
                  /\ requested' = Append(requested, planned.servers)
                  /\ invoked' = invoked \o [i \in 1..Len(planned.servers) |-> 0]
                  /\ tasks' = [tasks EXCEPT ![t].fresh = FALSE, ![t].next_run_at = at]
                  /\ UNCHANGED workers
             [] task.task_type = "cron" /\ mode = "run_now" ->
                  /\ at = NULL
                  /\ CreateAndStart(immediate)
                  /\ tasks' = [tasks EXCEPT ![t].fresh = FALSE]
             [] task.task_type = "cron" /\ mode = "later" ->
                  /\ at = NULL
                  /\ tasks' = [tasks EXCEPT ![t].fresh = FALSE]
                  /\ UNCHANGED <<runs, stages, jobs, workers, requested, invoked>>
             [] OTHER -> FALSE
    /\ UNCHANGED <<now, croniter, requests, sched>>

\* a POST to task_detail_view that has come to its end with this outcome;
\* created is the run the handler holds from create_run_for_task (493, 521)
Answered(action, target, outcome) ==
    [action |-> action, target |-> target, pc |-> outcome, created |-> 0]

\* task_detail_view, action == 'trigger', up to has_active_run (488-491)
TriggerCheck(t) ==
    /\ Len(requests) < MaxRequests
    /\ requests' = Append(requests,
           Answered("trigger", t, IF has_active_run(t) THEN "active" ELSE "checked"))
    /\ UNCHANGED <<now, croniter, tasks, runs, stages, jobs, workers, sched,
                   requested, invoked>>

\* task_detail_view, action == 'trigger', from create_run_for_task on (492-498)
TriggerCreate(i) ==
    /\ requests[i].action = "trigger"
    /\ requests[i].pc = "checked"
    /\ LET res == create_run_for_task(requests[i].target, NoServers, NULL, Operator,
                                      TRUE, NoStatus)
       IN  IF res.error # ""
           THEN /\ requests' = [requests EXCEPT ![i].pc = "no_targets"]
                /\ UNCHANGED <<runs, stages, jobs, workers, requested, invoked>>
           ELSE /\ Len(runs) < MaxRuns
                /\ requests' = [requests EXCEPT ![i].pc = "done",
                                                ![i].created = res.run]
                /\ CreateAndStart(res)
    /\ UNCHANGED <<now, croniter, tasks, sched>>

\* failed_servers that takes every job that is not success
failed_servers_unfinished(r) ==
    LET failed == {j \in JobsOfRun(r) : jobs[j].status # "success"}
        ordered == OrderByServer(failed)
    IN  [i \in 1..Len(ordered) |-> jobs[ordered[i]].server]

\* the servers of the failed jobs of run r, as retry_failed collects them (511-515)
failed_servers(r) ==
    LET failed == {j \in JobsOfRun(r) : jobs[j].status = "failed"}
        ordered == OrderByServer(failed)
    IN  [i \in 1..Len(ordered) |-> jobs[ordered[i]].server]

\* retry_failed that runs the failed jobs of the run again in place
RetryFailed_in_place(r) ==
    /\ Len(requests) < MaxRequests
    /\ r \in DOMAIN runs
    /\ IF failed_servers(r) = << >>
       THEN /\ requests' = Append(requests, Answered("retry_failed", r, "no_failed"))
            /\ UNCHANGED <<runs, jobs, workers>>
       ELSE /\ requests' = Append(requests, Answered("retry_failed", r, "done"))
            /\ runs' = [runs EXCEPT ![r].status = "queued"]
            /\ jobs' = [j \in DOMAIN jobs |->
                           IF j \in JobsOfRun(r) /\ jobs[j].status = "failed"
                           THEN [jobs[j] EXCEPT !.status = "pending"] ELSE jobs[j]]
            /\ workers' = Append(workers, NewWorker(r))
    /\ UNCHANGED <<now, croniter, tasks, stages, sched, requested, invoked>>

\* task_detail_view, action == 'retry_failed' (508-527)
RetryFailed(r) ==
    /\ Len(requests) < MaxRequests
    /\ r \in DOMAIN runs
    /\ LET servers == failed_servers(r)
           res == create_run_for_task(runs[r].task, servers, NULL, Operator, TRUE,
                                      NoStatus)
       IN  IF servers = << >>
           THEN /\ requests' = Append(requests, Answered("retry_failed", r, "no_failed"))
                /\ UNCHANGED <<runs, stages, jobs, workers, requested, invoked>>
           ELSE /\ Len(runs) < MaxRuns
                /\ requests' = Append(requests,
                       [Answered("retry_failed", r, "done") EXCEPT !.created = res.run])
                /\ CreateAndStart(res)
    /\ UNCHANGED <<now, croniter, tasks, sched>>

\* the statuses cancel_run accepts (532)
Cancellable == {"queued", "scheduled"}

\* task_detail_view, action == 'cancel_run', up to the status test (529-532, 537-538)
CancelCheck(r) ==
    /\ Len(requests) < MaxRequests
    /\ r \in DOMAIN runs
    /\ requests' = Append(requests,
           Answered("cancel_run", r,
                    IF runs[r].status \in Cancellable THEN "checked" ELSE "rejected"))
    /\ UNCHANGED <<now, croniter, tasks, runs, stages, jobs, workers, sched,
                   requested, invoked>>

\* task_detail_view, action == 'cancel_run', the save (533-536)
CancelWrite(i) ==
    /\ requests[i].action = "cancel_run"
    /\ requests[i].pc = "checked"
    /\ runs' = [runs EXCEPT ![requests[i].target].status = "cancelled",
                            ![requests[i].target].finished_at = now]
    /\ requests' = [requests EXCEPT ![i].pc = "done"]
    /\ UNCHANGED <<now, croniter, tasks, stages, jobs, workers, sched,
                   requested, invoked>>

\* task_detail_view, action == 'toggle' (501-506): the switch of the task the
\* request loaded is turned and saved with update_fields=['is_enabled']
Toggle(t) ==
    /\ tasks' = [tasks EXCEPT ![t].is_enabled = ~tasks[t].is_enabled]
    /\ UNCHANGED <<now, croniter, runs, stages, jobs, workers, requests, sched,
                   requested, invoked>>

\* ---------------------------------------------------------------- _execute_job
\* What _execute_job can return: the command's exit code and output, or, when
\* ssh_connection or exec_command raises, no exit code and str(exc), which is
\* empty for an exception raised without a message.
ExecResults ==
    {[exit_code |-> 0, stdout |-> "out", stderr |-> "", error |-> NoError],
     [exit_code |-> 1, stdout |-> "", stderr |-> "err", error |-> NoError],
     [exit_code |-> NULL, stdout |-> "", stderr |-> "", error |-> "timed out"],
     [exit_code |-> NULL, stdout |-> "", stderr |-> "", error |-> ""]}

\* Python's truth value of an Optional[str]
Truthy(text) == text \notin {NoError, ""}

\* the test of _execute_run that decides a job's status (154-160)
job_status(result) ==
    IF Truthy(result.error) \/ (result.exit_code # NULL /\ result.exit_code # 0)
    THEN "failed" ELSE "success"

\* job_result with the command's stderr taken for the error message
job_result_stderr(job, result) ==
    [job EXCEPT !.exit_code = result.exit_code,
                !.stdout = result.stdout,
                !.stderr = result.stderr,
                !.error_message = IF Truthy(result.error) THEN result.error
                                  ELSE result.stderr,
                !.finished_at = now,
                !.status = job_status(result)]

\* the job row as _execute_run saves it after _execute_job returned (148-160)
job_result(job, result) ==
    [job EXCEPT !.exit_code = result.exit_code,
                !.stdout = result.stdout,
                !.stderr = result.stderr,
                !.error_message = IF Truthy(result.error) THEN result.error ELSE "",
                !.finished_at = now,
                !.status = job_status(result)]

\* ---------------------------------------------------------------- _execute_run
\* Guarded as ExecutionRun.is_finished has it: without running
GuardedFinished == {"success", "failed", "cancelled"}

\* the statuses on which _execute_run returns at once (124)
Guarded == {"running", "success", "failed", "cancelled"}

SetWorker(w, fields) == workers' = [workers EXCEPT ![w] = fields @@ workers[w]]

\* _execute_run: the run is read and its status tested (123-125)
ExecLoad(w) ==
    /\ workers[w].pc = "start"
    /\ LET status == runs[workers[w].run].status
       IN  IF status \in Guarded
           THEN SetWorker(w, [pc |-> "skipped", seen |-> status])
           ELSE SetWorker(w, [pc |-> "loaded"])
    /\ UNCHANGED <<now, croniter, tasks, runs, stages, jobs, requests, sched,
                   requested, invoked>>

\* ExecStart that sets the run running without stamping started_at
ExecStart_unstamped(w) ==
    /\ workers[w].pc = "loaded"
    /\ LET r == workers[w].run
           found == StagesOf(r)
           stage == IF found = << >> THEN Len(stages) + 1 ELSE Head(found)
           table == IF found = << >> THEN Append(stages, NewStage(r)) ELSE stages
       IN  /\ runs' = [runs EXCEPT ![r].status = "running"]
           /\ stages' = [table EXCEPT ![stage].status = "running",
                                      ![stage].started_at = now]
           /\ SetWorker(w, [pc |-> "jobs", stage |-> stage,
                            todo |-> OrderByServer(JobsOf(stage))])
    /\ UNCHANGED <<now, croniter, tasks, jobs, requests, sched, requested, invoked>>

\* ExecStart whose loop takes the jobs in the order of their ids
ExecStart_in_creation_order(w) ==
    /\ workers[w].pc = "loaded"
    /\ LET r == workers[w].run
           found == StagesOf(r)
           stage == IF found = << >> THEN Len(stages) + 1 ELSE Head(found)
           table == IF found = << >> THEN Append(stages, NewStage(r)) ELSE stages
       IN  /\ runs' = [runs EXCEPT ![r].status = "running", ![r].started_at = now]
           /\ stages' = [table EXCEPT ![stage].status = "running",
                                      ![stage].started_at = now]
           /\ SetWorker(w, [pc |-> "jobs", stage |-> stage,
                            todo |-> SeqOfSet(JobsOf(stage))])
    /\ UNCHANGED <<now, croniter, tasks, jobs, requests, sched, requested, invoked>>

\* _execute_run: the run and its stage are set running, the stage made if there
\* is none, and the stage's jobs are queried in address order (127-141)
ExecStart(w) ==
    /\ workers[w].pc = "loaded"
    /\ LET r == workers[w].run
           found == StagesOf(r)
           stage == IF found = << >> THEN Len(stages) + 1 ELSE Head(found)
           table == IF found = << >> THEN Append(stages, NewStage(r)) ELSE stages
       IN  /\ runs' = [runs EXCEPT ![r].status = "running", ![r].started_at = now]
           /\ stages' = [table EXCEPT ![stage].status = "running",
                                      ![stage].started_at = now]
           /\ SetWorker(w, [pc |-> "jobs", stage |-> stage,
                            todo |-> OrderByServer(JobsOf(stage))])
    /\ UNCHANGED <<now, croniter, tasks, jobs, requests, sched, requested, invoked>>

\* _execute_run: the next job of the loop is set running (142-144)
JobStart(w) ==
    /\ workers[w].pc = "jobs"
    /\ workers[w].todo # << >>
    /\ LET j == Head(workers[w].todo)
       IN  jobs' = [jobs EXCEPT ![j].status = "running", ![j].started_at = now]
    /\ SetWorker(w, [pc |-> "exec"])
    /\ UNCHANGED <<now, croniter, tasks, runs, stages, requests, sched,
                   requested, invoked>>

\* all_success as the last job alone decides it
all_success_last(all_success, result) == job_status(result) = "success"

\* the loop left at the first failed job
remaining_fail_fast(todo, result) ==
    IF job_status(result) = "failed" THEN << >> ELSE Tail(todo)

\* the loop's all_success after a job with this result (139, 157)
all_success_after(all_success, result) ==
    all_success /\ job_status(result) = "success"

\* the jobs the loop still has to run after the job at its head (141)
remaining(todo, result) == Tail(todo)

\* _execute_run: _execute_job returns and the job's result is saved (146-160)
JobFinish(w, result) ==
    /\ workers[w].pc = "exec"
    /\ LET j == Head(workers[w].todo)
       IN  /\ jobs' = [jobs EXCEPT ![j] = job_result(jobs[j], result)]
           /\ invoked' = [invoked EXCEPT ![j] = @ + 1]
           /\ SetWorker(w, [pc |-> "jobs",
                            todo |-> remaining(workers[w].todo, result),
                            all_success |->
                                all_success_after(workers[w].all_success, result)])
    /\ UNCHANGED <<now, croniter, tasks, runs, stages, requests, sched, requested>>

\* the status _execute_run gives the stage and the run (162, 166)
final_status(all_success) == IF all_success THEN "success" ELSE "failed"

\* Finalize that finishes the run and leaves its stage as it is
Finalize_run_only(w) ==
    /\ workers[w].pc = "jobs"
    /\ workers[w].todo = << >>
    /\ runs' = [runs EXCEPT
                   ![workers[w].run].status = final_status(workers[w].all_success),
                   ![workers[w].run].finished_at = now]
    /\ SetWorker(w, [pc |-> "mark", finished_at |-> now])
    /\ UNCHANGED <<now, croniter, tasks, stages, jobs, requests, sched, requested,
                   invoked>>

\* _execute_run: after the loop the stage and the run are finished (162-168)
Finalize(w) ==
    /\ workers[w].pc = "jobs"
    /\ workers[w].todo = << >>
    /\ LET r == workers[w].run
           s == workers[w].stage
           status == final_status(workers[w].all_success)
       IN  /\ stages' = [stages EXCEPT ![s].status = status, ![s].finished_at = now]
           /\ runs' = [runs EXCEPT ![r].status = status, ![r].finished_at = now]
    /\ SetWorker(w, [pc |-> "mark", finished_at |-> now])
    /\ UNCHANGED <<now, croniter, tasks, jobs, requests, sched, requested, invoked>>

\* mark_last_run that leaves next_run_at as it is
mark_last_run_keeps_next(task, finished_at) ==
    [task EXCEPT !.last_run_at = IF finished_at # NULL THEN finished_at ELSE now]

\* ExecutionTask.mark_last_run (models.py 252-258)
mark_last_run(task, finished_at) ==
    LET marked == [task EXCEPT !.last_run_at =
                       IF finished_at # NULL THEN finished_at ELSE now]
    IN  IF ~is_periodic(task) THEN [marked EXCEPT !.next_run_at = NULL] ELSE marked

\* update_task_schedule that goes on from the next_run_at it replaces
update_task_schedule_from_previous(task) ==
    LET next_time == calculate_next_run(task.cron_expression, task.next_run_at)
    IN  IF is_periodic(task) /\ task.cron_expression # 0 /\ next_time # NULL
        THEN [task EXCEPT !.next_run_at = next_time]
        ELSE task

\* _update_task_schedule
update_task_schedule(task) ==
    LET next_time == calculate_next_run(task.cron_expression, now)
    IN  IF is_periodic(task) /\ task.cron_expression # 0 /\ next_time # NULL
        THEN [task EXCEPT !.next_run_at = next_time]
        ELSE task

\* _execute_run: the task's last and next run are written (170-173)
MarkLastRun(w) ==
    /\ workers[w].pc = "mark"
    /\ LET t == runs[workers[w].run].task
           marked == mark_last_run(tasks[t], workers[w].finished_at)
       IN  tasks' = [tasks EXCEPT ![t] =
                        IF is_periodic(marked) THEN update_task_schedule(marked)
                        ELSE marked]
    /\ workers' = [workers EXCEPT ![w] =
                      [NewWorker(workers[w].run) EXCEPT !.pc = "done"]]
    /\ UNCHANGED <<now, croniter, runs, stages, jobs, requests, sched,
                   requested, invoked>>

\* ---------------------------------------------------------------- process_execution_tasks
SetCommand(p, fields) == sched' = [sched EXCEPT ![p] = fields @@ sched[p]]

\* the runs _dispatch_scheduled_runs selects (22), newest first (Meta.ordering)
due_runs(at) ==
    Reverse(SeqOfSet({r \in DOMAIN runs :
        /\ runs[r].status = "scheduled"
        /\ runs[r].scheduled_for # NULL
        /\ runs[r].scheduled_for <= at}))

\* the tasks _dispatch_cron_tasks selects (30), as the rows the query returned
cron_tasks ==
    LET ids == Reverse(SeqOfSet({t \in Tasks :
                   tasks[t].task_type = "cron" /\ tasks[t].is_enabled}))
    IN  [i \in 1..Len(ids) |->
            [id |-> ids[i], next_run_at |-> tasks[ids[i]].next_run_at,
             cron_expression |-> tasks[ids[i]].cron_expression]]

\* _dispatch_cron_tasks goes on to its next task; after the last one handle
\* returns and the command's process ends
NextTask(p) ==
    IF Tail(sched[p].taskq) = << >>
    THEN sched' = [sched EXCEPT ![p] = IdleCommand]
    ELSE SetCommand(p, [pc |-> "B", taskq |-> Tail(sched[p].taskq)])

\* handle reads the clock and _dispatch_scheduled_runs runs its query (17, 22);
\* when no run is due its loop has no body to run and the query of
\* _dispatch_cron_tasks (30) follows at once
SchedStart(p) ==
    /\ sched[p].pc = "idle"
    /\ IF due_runs(now) # << >>
       THEN SetCommand(p, [pc |-> "A", now |-> now, runq |-> due_runs(now)])
       ELSE IF cron_tasks # << >>
       THEN SetCommand(p, [pc |-> "B", now |-> now, taskq |-> cron_tasks])
       ELSE UNCHANGED sched
    /\ UNCHANGED <<now, croniter, tasks, runs, stages, jobs, workers, requests,
                   requested, invoked>>

\* _dispatch_scheduled_runs: one run is saved as queued and started (25-27)
SchedPromote(p) ==
    /\ sched[p].pc = "A"
    /\ sched[p].runq # << >>
    /\ LET r == Head(sched[p].runq)
           queued == [runs EXCEPT ![r].status = "queued"]
       IN  runs' = start_run_async(queued, r, "queued")
    /\ workers' = Append(workers, NewWorker(Head(sched[p].runq)))
    /\ SetCommand(p, [runq |-> Tail(sched[p].runq)])
    /\ UNCHANGED <<now, croniter, tasks, stages, jobs, requests, requested, invoked>>

\* _dispatch_cron_tasks runs its query (30)
SchedSweepB(p) ==
    /\ sched[p].pc = "A"
    /\ sched[p].runq = << >>
    /\ IF cron_tasks = << >>
       THEN sched' = [sched EXCEPT ![p] = IdleCommand]
       ELSE SetCommand(p, [pc |-> "B", taskq |-> cron_tasks])
    /\ UNCHANGED <<now, croniter, tasks, runs, stages, jobs, workers, requests,
                   requested, invoked>>

\* SchedTask that takes a task without next_run_at for a due one
SchedTask_unarmed_fires(p) ==
    /\ sched[p].pc = "B"
    /\ sched[p].taskq # << >>
    /\ LET task == Head(sched[p].taskq)
       IN  IF has_active_run(task.id)
           THEN NextTask(p)
           ELSE IF task.next_run_at # NULL /\ task.next_run_at > sched[p].now
           THEN NextTask(p)
           ELSE SetCommand(p, [pc |-> "fire"])
    /\ UNCHANGED <<now, croniter, tasks, runs, stages, jobs, workers, requests,
                   requested, invoked>>

\* _dispatch_cron_tasks: one task up to the decision to fire it (32-43)
SchedTask(p) ==
    /\ sched[p].pc = "B"
    /\ sched[p].taskq # << >>
    /\ LET task == Head(sched[p].taskq)
           next_time == calculate_next_run(task.cron_expression, sched[p].now)
       IN  IF has_active_run(task.id)
           THEN /\ NextTask(p)
                /\ UNCHANGED tasks
           ELSE IF task.next_run_at = NULL
           THEN /\ NextTask(p)
                /\ tasks' = IF next_time # NULL
                            THEN [tasks EXCEPT ![task.id].next_run_at = next_time]
                            ELSE tasks
           ELSE IF task.next_run_at > sched[p].now
           THEN /\ NextTask(p)
                /\ UNCHANGED tasks
           ELSE /\ SetCommand(p, [pc |-> "fire"])
                /\ UNCHANGED tasks
    /\ UNCHANGED <<now, croniter, runs, stages, jobs, workers, requests,
                   requested, invoked>>

\* SchedFire that looks for an active run once more before it creates its run
SchedFire_rechecked(p) ==
    /\ sched[p].pc = "fire"
    /\ LET task == Head(sched[p].taskq)
           res == create_run_for_task(task.id, NoServers, NULL, AnonymousUser, FALSE,
                                      NoStatus)
       IN  IF res.error # "" \/ has_active_run(task.id)
           THEN /\ NextTask(p)
                /\ UNCHANGED <<runs, stages, jobs, workers, requested, invoked>>
           ELSE /\ Len(runs) < MaxRuns
                /\ SetCommand(p, [pc |-> "next"])
                /\ CreateAndStart(res)
    /\ UNCHANGED <<now, croniter, tasks, requests>>

\* _dispatch_cron_tasks: the due task's run is created and started (45-52)
SchedFire(p) ==
    /\ sched[p].pc = "fire"
    /\ LET task == Head(sched[p].taskq)
           res == create_run_for_task(task.id, NoServers, NULL, AnonymousUser, FALSE,
                                      NoStatus)
       IN  IF res.error # ""
           THEN /\ NextTask(p)
                /\ UNCHANGED <<runs, stages, jobs, workers, requested, invoked>>
           ELSE /\ Len(runs) < MaxRuns
                /\ SetCommand(p, [pc |-> "next"])
                /\ CreateAndStart(res)
    /\ UNCHANGED <<now, croniter, tasks, requests>>

\* SchedNext that takes the next time after the pass's clock
SchedNext_from_now(p) ==
    /\ sched[p].pc = "next"
    /\ LET task == Head(sched[p].taskq)
           next_time == calculate_next_run(task.cron_expression, sched[p].now)
       IN  tasks' = IF next_time # NULL
                    THEN [tasks EXCEPT ![task.id].next_run_at = next_time]
                    ELSE tasks
    /\ NextTask(p)
    /\ UNCHANGED <<now, croniter, runs, stages, jobs, workers, requests,
                   requested, invoked>>

\* SchedNext that joins the thread of the run it fired before it goes on
SchedNext_joined(p) ==
    /\ sched[p].pc = "next"
    /\ \A w \in DOMAIN workers :
           runs[workers[w].run].task = Head(sched[p].taskq).id => workers[w].pc = "done"
    /\ LET task == Head(sched[p].taskq)
           reference == IF task.next_run_at # NULL THEN task.next_run_at
                        ELSE sched[p].now
           next_time == calculate_next_run(task.cron_expression, reference)
       IN  tasks' = IF next_time # NULL
                    THEN [tasks EXCEPT ![task.id].next_run_at = next_time]
                    ELSE tasks
    /\ NextTask(p)
    /\ UNCHANGED <<now, croniter, runs, stages, jobs, workers, requests,
                   requested, invoked>>

\* SchedNext that saves every field of the row its query read, the switch
\* included (the query selects enabled tasks)
SchedNext_whole_row(p) ==
    /\ sched[p].pc = "next"
    /\ LET task == Head(sched[p].taskq)
           reference == IF task.next_run_at # NULL THEN task.next_run_at
                        ELSE sched[p].now
           next_time == calculate_next_run(task.cron_expression, reference)
       IN  tasks' = IF next_time # NULL
                    THEN [tasks EXCEPT ![task.id].next_run_at = next_time,
                                       ![task.id].is_enabled = TRUE]
                    ELSE tasks
    /\ NextTask(p)
    /\ UNCHANGED <<now, croniter, runs, stages, jobs, workers, requests,
                   requested, invoked>>

\* _dispatch_cron_tasks: the fired task's next_run_at is moved on (54-57)
SchedNext(p) ==
    /\ sched[p].pc = "next"
    /\ LET task == Head(sched[p].taskq)
           reference == IF task.next_run_at # NULL THEN task.next_run_at
                        ELSE sched[p].now
           next_time == calculate_next_run(task.cron_expression, reference)
       IN  tasks' = IF next_time # NULL
                    THEN [tasks EXCEPT ![task.id].next_run_at = next_time]
                    ELSE tasks
    /\ NextTask(p)
    /\ UNCHANGED <<now, croniter, runs, stages, jobs, workers, requests,
                   requested, invoked>>

Scheduler(p) ==
    \/ SchedStart(p)
    \/ SchedPromote(p)
    \/ SchedSweepB(p)
    \/ SchedTask(p)
    \/ SchedFire(p)
    \/ SchedNext(p)

\* the threads a process_execution_tasks command started: those of the runs it
\* promoted (27), which alone have a scheduled_for, and of the runs it fired
\* (52), which alone are not manual
StartedByCommand(w) ==
    LET run == runs[workers[w].run]
    IN  ~run.is_manual \/ run.scheduled_for # NULL

\* handle has returned and the command's process ends: the threads it started
\* are daemon threads (execution.py 183) that nothing joins, and they end with
\* the process wherever they are
CommandExit ==
    /\ \A p \in Commands : sched[p].pc = "idle"
    /\ \E w \in DOMAIN workers :
           StartedByCommand(w) /\ workers[w].pc \notin {"done", "killed"}
    /\ workers' = [w \in DOMAIN workers |->
                      IF StartedByCommand(w) /\ workers[w].pc # "done"
                      THEN [workers[w] EXCEPT !.pc = "killed"]
                      ELSE workers[w]]
    /\ UNCHANGED <<now, croniter, tasks, runs, stages, jobs, requests, sched,
                   requested, invoked>>

\* ---------------------------------------------------------------- handle, start to end
\* What one process_execution_tasks command makes of the tables when nothing
\* else touches them between its first line and its last: handle as a function
\* of the tables db and of the clock value at that it read (17).  threads lists
\* the runs start_run_async was called for.
Tables ==
    [tasks |-> tasks, runs |-> runs, stages |-> stages, jobs |-> jobs,
     threads |-> << >>]

\* _dispatch_scheduled_runs (21-27)
dispatch_scheduled_runs(db, at) ==
    LET due == {r \in DOMAIN db.runs :
                   /\ db.runs[r].status = "scheduled"
                   /\ db.runs[r].scheduled_for # NULL
                   /\ db.runs[r].scheduled_for <= at}
    IN  [db EXCEPT !.runs = [r \in DOMAIN db.runs |->
                                IF r \in due
                                THEN [db.runs[r] EXCEPT !.status = "queued"]
                                ELSE db.runs[r]],
                   !.threads = db.threads \o Reverse(SeqOfSet(due))]

\* the rows the query of _dispatch_cron_tasks returns (30)
cron_rows(db) ==
    LET ids == Reverse(SeqOfSet({t \in DOMAIN db.tasks :
                   db.tasks[t].task_type = "cron" /\ db.tasks[t].is_enabled}))
    IN  [i \in 1..Len(ids) |->
            [id |-> ids[i], next_run_at |-> db.tasks[ids[i]].next_run_at,
             cron_expression |-> db.tasks[ids[i]].cron_expression]]

\* dispatch_cron_task that does not look for a queued or running run
dispatch_cron_task_unguarded(db, task, at) ==
    LET t == task.id
        active == \E r \in DOMAIN db.runs :
                      /\ db.runs[r].task = t
                      /\ db.runs[r].status \in {"queued", "running"}
        armed == calculate_next_run(task.cron_expression, at)
        servers == db.tasks[t].targets
        run == Len(db.runs) + 1
        stage == Len(db.stages) + 1
        row == [task |-> t, status |-> "queued", scheduled_for |-> NULL,
                started_at |-> NULL, finished_at |-> NULL,
                triggered_by |-> NULL, is_manual |-> FALSE]
        next_time == calculate_next_run(task.cron_expression, task.next_run_at)
    IN  IF task.next_run_at = NULL
        THEN IF armed # NULL THEN [db EXCEPT !.tasks[t].next_run_at = armed] ELSE db
        ELSE IF task.next_run_at > at THEN db
        ELSE IF servers = << >> THEN db
        ELSE [db EXCEPT
                 !.runs = Append(db.runs, row),
                 !.stages = Append(db.stages, NewStage(run)),
                 !.jobs = db.jobs \o [i \in 1..Len(servers) |-> NewJob(stage, servers[i])],
                 !.threads = Append(db.threads, run),
                 !.tasks[t].next_run_at =
                     IF next_time # NULL THEN next_time ELSE task.next_run_at]

\* dispatch_cron_task that moves next_run_at on although no run was created
dispatch_cron_task_error_moves_on(db, task, at) ==
    LET t == task.id
        active == \E r \in DOMAIN db.runs :
                      /\ db.runs[r].task = t
                      /\ db.runs[r].status \in {"queued", "running"}
        armed == calculate_next_run(task.cron_expression, at)
        servers == db.tasks[t].targets
        run == Len(db.runs) + 1
        stage == Len(db.stages) + 1
        row == [task |-> t, status |-> "queued", scheduled_for |-> NULL,
                started_at |-> NULL, finished_at |-> NULL,
                triggered_by |-> NULL, is_manual |-> FALSE]
        next_time == calculate_next_run(task.cron_expression, task.next_run_at)
    IN  IF active THEN db
        ELSE IF task.next_run_at = NULL
        THEN IF armed # NULL THEN [db EXCEPT !.tasks[t].next_run_at = armed] ELSE db
        ELSE IF task.next_run_at > at THEN db
        ELSE IF servers = << >>
        THEN [db EXCEPT !.tasks[t].next_run_at =
                            IF next_time # NULL THEN next_time ELSE task.next_run_at]
        ELSE [db EXCEPT
                 !.runs = Append(db.runs, row),
                 !.stages = Append(db.stages, NewStage(run)),
                 !.jobs = db.jobs \o [i \in 1..Len(servers) |-> NewJob(stage, servers[i])],
                 !.threads = Append(db.threads, run),
                 !.tasks[t].next_run_at =
                     IF next_time # NULL THEN next_time ELSE task.next_run_at]

\* the body of the loop of _dispatch_cron_tasks for one row of its query (32-57)
dispatch_cron_task(db, task, at) ==
    LET t == task.id
        active == \E r \in DOMAIN db.runs :
                      /\ db.runs[r].task = t
                      /\ db.runs[r].status \in {"queued", "running"}
        armed == calculate_next_run(task.cron_expression, at)
        servers == db.tasks[t].targets
        run == Len(db.runs) + 1
        stage == Len(db.stages) + 1
        row == [task |-> t, status |-> "queued", scheduled_for |-> NULL,
                started_at |-> NULL, finished_at |-> NULL,
                triggered_by |-> NULL, is_manual |-> FALSE]
        next_time == calculate_next_run(task.cron_expression, task.next_run_at)
    IN  IF active THEN db
        ELSE IF task.next_run_at = NULL
        THEN IF armed # NULL THEN [db EXCEPT !.tasks[t].next_run_at = armed] ELSE db
        ELSE IF task.next_run_at > at THEN db
        ELSE IF servers = << >> THEN db
        ELSE [db EXCEPT
                 !.runs = Append(db.runs, row),
                 !.stages = Append(db.stages, NewStage(run)),
                 !.jobs = db.jobs \o [i \in 1..Len(servers) |-> NewJob(stage, servers[i])],
                 !.threads = Append(db.threads, run),
                 !.tasks[t].next_run_at =
                     IF next_time # NULL THEN next_time ELSE task.next_run_at]

\* _dispatch_cron_tasks on the rows of its query, one after the other (31)
RECURSIVE dispatch_cron_tasks(_, _, _)
dispatch_cron_tasks(db, rows, at) ==
    IF rows = << >> THEN db
    ELSE dispatch_cron_tasks(dispatch_cron_task(db, Head(rows), at), Tail(rows), at)

\* handle (16-19)
handle(db, at) ==
    LET swept == dispatch_scheduled_runs(db, at)
    IN  dispatch_cron_tasks(swept, cron_rows(swept), at)

\* a process_execution_tasks command from its first line to its last, with
\* no step of anything else in between
Handle ==
    /\ \A p \in Commands : sched[p].pc = "idle"
    /\ LET db == handle(Tables, now)
           created == Len(db.runs) - Len(runs)
       IN  /\ Len(db.runs) <= MaxRuns
           /\ tasks' = db.tasks
           /\ runs' = db.runs
           /\ stages' = db.stages
           /\ jobs' = db.jobs
           /\ workers' = workers \o [i \in 1..Len(db.threads) |-> NewWorker(db.threads[i])]
           /\ requested' = requested \o
                  [i \in 1..created |-> tasks[db.runs[Len(runs) + i].task].targets]
           /\ invoked' = invoked \o [i \in 1..(Len(db.jobs) - Len(jobs)) |-> 0]
    /\ UNCHANGED <<now, croniter, requests, sched>>

\* ---------------------------------------------------------------- specifications
Created ==
    \/ \E t \in Tasks, mode \in {"immediate", "run_now", "later"} :
           TaskCreateView(t, mode, NULL)
    \/ \E t \in Tasks, at \in 1..MaxTime : TaskCreateView(t, "schedule", at)

Views ==
    \/ \E t \in Tasks : TriggerCheck(t)
    \/ \E i \in DOMAIN requests : TriggerCreate(i)
    \/ \E r \in DOMAIN runs : RetryFailed(r)

Cancel ==
    \/ \E r \in DOMAIN runs : CancelCheck(r)
    \/ \E i \in DOMAIN requests : CancelWrite(i)

Dispatcher ==
    \/ \E w \in DOMAIN workers : ExecLoad(w)
    \/ \E w \in DOMAIN workers : ExecStart(w)
    \/ \E w \in DOMAIN workers : JobStart(w)
    \/ \E w \in DOMAIN workers, result \in ExecResults : JobFinish(w, result)
    \/ \E w \in DOMAIN workers : Finalize(w)
    \/ \E w \in DOMAIN workers : MarkLastRun(w)

\* one process_execution_tasks command at a time, as its caller has to guarantee
Next == Tick \/ Created \/ Views \/ Cancel \/ Dispatcher \/ Scheduler("pass1")

Spec == Init /\ [][Next]_vars

\* Two process_execution_tasks commands that may overlap, where every task is
\* a one-off task (_dispatch_cron_tasks then finds no task and does nothing) and
\* the operator's only requests are task_create_view and cancel_run.
InitOneOff == Init /\ \A t \in Tasks : tasks[t].task_type = "one_off"

SweepA(p) ==
    \/ SchedStart(p)
    \/ SchedPromote(p)
    \/ SchedSweepB(p)

NextOverlap == Tick \/ Created \/ Cancel \/ Dispatcher \/ \E p \in Commands : SweepA(p)

SpecOverlap == InitOneOff /\ [][NextOverlap]_vars

\* Two process_execution_tasks commands that may overlap, where every task is a
\* cron task and no run is scheduled (_dispatch_scheduled_runs then finds no run
\* and does nothing) and the operator sends no request.
InitCron == Init /\ \A t \in Tasks : tasks[t].task_type = "cron"

SweepB(p) ==
    \/ SchedStart(p)
    \/ SchedTask(p)
    \/ SchedFire(p)
    \/ SchedNext(p)

NextCronOverlap == Tick \/ Dispatcher \/ \E p \in Commands : SweepB(p)

SpecCronOverlap == InitCron /\ [][NextCronOverlap]_vars

\* One process_execution_tasks command at a time on cron tasks, each pass as
\* late as the clock allows, and the threads of the runs it fires.
NextCron == Later \/ Dispatcher \/ SweepB("pass1")

SpecCron == InitCron /\ [][NextCron]_vars

\* One process_execution_tasks command at a time on the task rows the admin
\* site can leave behind (ExecutionTaskAdmin: any task_type, is_enabled and
\* cron_expression, next_run_at never written by hand), with or without
\* croniter in the command's environment, while the operator turns the task's
\* switch and the threads of the fired runs go on.
AdminRows ==
    {[task_type |-> ty,
      cron_expression |-> e,
      is_enabled |-> en,
      last_run_at |-> NULL,
      next_run_at |-> n,
      targets |-> tg,
      fresh |-> tg # << >>] :
        ty \in {"one_off", "cron"}, e \in {0, CronPeriod}, en \in BOOLEAN,
        n \in {NULL, CronPeriod}, tg \in {<< >>, Descending(NumServers)}}

InitSweepB ==
    /\ now = 0
    /\ croniter \in BOOLEAN
    /\ tasks \in [Tasks -> {row \in AdminRows :
                      row.task_type = "one_off" =>
                          row.cron_expression = 0 /\ row.next_run_at = NULL}]
    /\ runs = << >>
    /\ stages = << >>
    /\ jobs = << >>
    /\ workers = << >>
    /\ requests = << >>
    /\ sched = [p \in Commands |-> IdleCommand]
    /\ requested = << >>
    /\ invoked = << >>

NextSweepB == Tick \/ (\E t \in Tasks : Toggle(t)) \/ Dispatcher \/ SweepB("pass1")

SpecSweepB == InitSweepB /\ [][NextSweepB]_vars

\* Whole process_execution_tasks commands on the task rows of InitSweepB, with
\* the runs task_create_view creates and the dispatcher threads going on
\* between two commands.
NextHandle == Tick \/ Created \/ Dispatcher \/ Handle

SpecHandle == InitSweepB /\ [][NextHandle]_vars

\* Whole process_execution_tasks commands on one enabled cron task more than
\* Tasks counts, so that one query of _dispatch_cron_tasks returns several
\* rows, and the dispatcher threads of the runs they fire.
InitSeveral ==
    /\ now = 0
    /\ croniter = TRUE
    /\ tasks \in [1..(NumTasks + 1) ->
                     {row \in AdminRows : /\ row.task_type = "cron"
                                          /\ row.is_enabled
                                          /\ row.cron_expression = CronPeriod}]
    /\ runs = << >>
    /\ stages = << >>
    /\ jobs = << >>
    /\ workers = << >>
    /\ requests = << >>
    /\ sched = [p \in Commands |-> IdleCommand]
    /\ requested = << >>
    /\ invoked = << >>

NextSeveral == Tick \/ Dispatcher \/ Handle

SpecSeveral == InitSeveral /\ [][NextSeveral]_vars

\* The engine with its processes: the web process, whose threads live on, and
\* one process_execution_tasks command at a time, each in a process of its own
\* that ends when handle has returned.  Every thread that can take a step takes
\* it in the end (the scheduler is fair and _execute_job always returns), and a
\* command's process ends in the end.
Thread(w) ==
    /\ w \in DOMAIN workers
    /\ \/ ExecLoad(w)
       \/ ExecStart(w)
       \/ JobStart(w)
       \/ \E result \in ExecResults : JobFinish(w, result)
       \/ Finalize(w)
       \/ MarkLastRun(w)

CommandStart ==
    /\ \A w \in DOMAIN workers :
           StartedByCommand(w) => workers[w].pc \in {"done", "killed"}
    /\ SchedStart("pass1")

NextLive ==
    \/ Tick
    \/ Created
    \/ Views
    \/ \E w \in 1..MaxRuns : Thread(w)
    \/ CommandStart
    \/ SchedPromote("pass1")
    \/ SchedSweepB("pass1")
    \/ SchedTask("pass1")
    \/ SchedFire("pass1")
    \/ SchedNext("pass1")
    \/ CommandExit

Fairness ==
    /\ WF_vars(CommandExit)
    /\ \A w \in 1..MaxRuns : WF_vars(Thread(w))

SpecLive == Init /\ [][NextLive]_vars /\ Fairness

\* create_run_for_task called with every status and scheduled_for, before, at
\* and after the clock.
NextCreate ==
    \/ Later
    \/ \E t \in Tasks, scheduled_for \in ScheduledForArguments,
          status \in StatusArguments : CreateRun(t, scheduled_for, status)

SpecCreate == Init /\ [][NextCreate]_vars

\* One process_execution_tasks command at a time whose every step is taken in
\* the end (its steps are reads and writes of the store), while no call of
\* _execute_job ever returns: the threads come as far as their first job and
\* stay there.
Stalled ==
    \/ \E w \in DOMAIN workers : ExecLoad(w)
    \/ \E w \in DOMAIN workers : ExecStart(w)
    \/ \E w \in DOMAIN workers : JobStart(w)

NextStalled == Tick \/ Created \/ Stalled \/ Scheduler("pass1")

SpecStalled == Init /\ [][NextStalled]_vars /\ WF_vars(Scheduler("pass1"))

\* Server rows are deleted by the inventory layer (views.py 245, 280;
\* cleanup_servers.py 90; services.py 63 for the server that holds the reported
\* address under another serial number). Ids are never given again, so a deleted
\* ExecutionJob row leaves its place in the table to a row no stage and no
\* server own.
DeletedJob ==
    [stage |-> NULL, server |-> NULL, status |-> "deleted", exit_code |-> NULL,
     stdout |-> "", stderr |-> "", error_message |-> "",
     started_at |-> NULL, finished_at |-> NULL]

\* Server.delete(): ExecutionJob.server and ExecutionTaskTarget.server are
\* on_delete=CASCADE (models.py 270-273, 385-390), so the rows that point at
\* the server go with it; stages and runs have no reference to a server.
DeleteServer(s) ==
    /\ \/ \E j \in DOMAIN jobs : jobs[j].server = s
       \/ \E t \in Tasks : s \in Range(tasks[t].targets)
    /\ jobs' = [j \in DOMAIN jobs |->
                    IF jobs[j].server = s THEN DeletedJob ELSE jobs[j]]
    /\ tasks' = [t \in Tasks |->
                    LET kept == SelectSeq(tasks[t].targets, LAMBDA x : x # s)
                    IN  [tasks[t] EXCEPT !.targets = kept,
                                         !.fresh = @ /\ kept # << >>]]
    /\ UNCHANGED <<now, croniter, runs, stages, workers, requests, sched,
                   requested, invoked>>

\* the job the thread's loop is at still has its row
RowKept(w) ==
    /\ workers[w].todo # << >>
    /\ jobs[Head(workers[w].todo)] # DeletedJob

\* job.save(update_fields=...) of a job whose row is gone (144, 156, 160)
\* updates no row and raises DatabaseError: the thread ends there, after the
\* executor if the row went while it ran.
SaveRaises(w) ==
    /\ workers[w].pc \in {"jobs", "exec"}
    /\ workers[w].todo # << >>
    /\ jobs[Head(workers[w].todo)] = DeletedJob
    /\ invoked' = IF workers[w].pc = "exec"
                  THEN [invoked EXCEPT ![Head(workers[w].todo)] = @ + 1]
                  ELSE invoked
    /\ SetWorker(w, [pc |-> "raised"])
    /\ UNCHANGED <<now, croniter, tasks, runs, stages, jobs, requests, sched,
                   requested>>

DispatcherOfKeptRows ==
    \/ \E w \in DOMAIN workers : ExecLoad(w)
    \/ \E w \in DOMAIN workers : ExecStart(w)
    \/ \E w \in DOMAIN workers : RowKept(w) /\ JobStart(w)
    \/ \E w \in DOMAIN workers, result \in ExecResults :
           RowKept(w) /\ JobFinish(w, result)
    \/ \E w \in DOMAIN workers : Finalize(w)
    \/ \E w \in DOMAIN workers : MarkLastRun(w)
    \/ \E w \in DOMAIN workers : SaveRaises(w)

\* task creation and dispatch while the inventory layer deletes servers
NextDelete ==
    \/ Tick
    \/ Created
    \/ DispatcherOfKeptRows
    \/ \E s \in 1..NumServers : DeleteServer(s)

SpecDelete == Init /\ [][NextDelete]_vars

\* Who may call create_run_for_task: no view demands a login, so request.user
\* is a signed-in user or Django's AnonymousUser (views.py 417, 428, 441, 493,
\* 521); the command passes no identity (process_execution_tasks.py 46), and
\* getattr(None, 'is_authenticated', False) is False as for AnonymousUser.
Colleague == [id |-> 2, is_authenticated |-> TRUE]

Identities == {Operator, Colleague, AnonymousUser}

\* a call of create_run_for_task(task, triggered_by=..., manual=...) with
\* nothing started for the run
CreateRunAs(t, triggered_by, manual) ==
    /\ Len(runs) < MaxRuns
    /\ LET res == create_run_for_task(t, NoServers, NULL, triggered_by, manual, NoStatus)
       IN  /\ res.error = ""
           /\ runs' = res.runs
           /\ stages' = res.stages
           /\ jobs' = res.jobs
           /\ requested' = Append(requested, res.servers)
           /\ invoked' = invoked \o [i \in 1..Len(res.servers) |-> 0]
    /\ UNCHANGED <<now, croniter, tasks, workers, requests, sched>>

\* runs created for any identity, and by whole passes of the command
NextIdentity ==
    \/ Tick
    \/ \E t \in Tasks, triggered_by \in Identities, manual \in BOOLEAN :
           CreateRunAs(t, triggered_by, manual)
    \/ Handle

SpecIdentity == Init /\ [][NextIdentity]_vars

\* Fair scheduling in a process that lives on: every thread that was started
\* takes its steps in the end, and the command is run again and again with
\* every pass taking its steps.
NextQueued ==
    \/ Tick
    \/ Created
    \/ Views
    \/ Cancel
    \/ \E w \in 1..MaxRuns : Thread(w)
    \/ Scheduler("pass1")

FairQueued ==
    /\ \A w \in 1..MaxRuns : WF_vars(Thread(w))
    /\ WF_vars(Scheduler("pass1"))

SpecQueued == Init /\ [][NextQueued]_vars /\ FairQueued

\* ---------------------------------------------------------------- claims

Terminal == {"success", "failed"}

C2_StatusFollowsEdges ==
    [][/\ \A r \in DOMAIN runs :
              runs'[r].status # runs[r].status =>
                  <<runs[r].status, runs'[r].status>> \in
                      {<<"scheduled", "queued">>, <<"queued", "running">>,
                       <<"running", "success">>, <<"running", "failed">>,
                       <<"scheduled", "cancelled">>, <<"queued", "cancelled">>}
       /\ \A w \in DOMAIN workers :
              workers'[w] # workers[w] =>
                  \A r \in DOMAIN runs :
                      runs'[r].status = "cancelled" => runs[r].status = "cancelled"
      ]_vars

\* C3: a dispatcher thread that begins on a run whose status is running, success,
\* failed or cancelled returns at once: it ends there, and the tasks, runs,
\* stages and jobs and the count of executor calls are as they were.
C3_GuardedDispatchIsNoOp ==
    [][\A w \in DOMAIN workers :
           /\ (/\ workers[w].pc = "start"
               /\ runs[workers[w].run].status
                      \in {"running", "success", "failed", "cancelled"}
               /\ workers'[w] # workers[w])
              => /\ workers'[w].pc = "skipped"
                 /\ UNCHANGED <<tasks, runs, stages, jobs, invoked>>
           /\ workers[w].pc = "skipped" => workers'[w] = workers[w]
      ]_vars

\* a dispatcher thread has returned at once from a run it found running
C3_SkippedRunning ==
    \E w \in DOMAIN workers : workers[w].pc = "skipped" /\ workers[w].seen = "running"

\* C4: a cancelled run has no started_at, and each of its jobs is pending and
\* never went to the executor (so a run with a job past pending is not cancelled).
C4_CancelledNeverStarted ==
    \A r \in DOMAIN runs :
        runs[r].status = "cancelled" =>
            /\ runs[r].started_at = NULL
            /\ \A j \in JobsOfRun(r) : jobs[j].status = "pending" /\ invoked[j] = 0

\* C5: a cancel_run request goes through only on a run that is scheduled or
\* queued, and then the run is cancelled with finished_at stamped; on a run that
\* is running, success, failed or cancelled the request ends rejected and leaves
\* the runs, stages and jobs as they were.
C5_CancelOnlyScheduledOrQueued ==
    [][\A i \in DOMAIN requests' :
           LET before == IF i \in DOMAIN requests THEN requests[i].pc ELSE "new"
               req == requests'[i]
               r == req.target
           IN  (req.action = "cancel_run" /\ req.pc \in {"done", "rejected"}
                    /\ before # req.pc) =>
                   IF runs[r].status \in {"scheduled", "queued"}
                   THEN /\ req.pc = "done"
                        /\ runs'[r].status = "cancelled"
                        /\ runs'[r].finished_at = now
                   ELSE /\ req.pc = "rejected"
                        /\ UNCHANGED <<runs, stages, jobs>>
      ]_vars

C7_NoTargetsCreatesNothing ==
    [][/\ \A i \in DOMAIN requests :
              (/\ requests[i].action = "trigger"
               /\ requests[i].pc = "checked"
               /\ tasks[requests[i].target].targets = << >>
               /\ requests'[i] # requests[i])
              => /\ requests'[i].pc = "no_targets"
                 /\ UNCHANGED <<now, croniter, tasks, runs, stages, jobs, workers,
                                sched, requested, invoked>>
       /\ \A p \in Commands :
              (/\ sched[p].pc = "fire"
               /\ tasks[Head(sched[p].taskq).id].targets = << >>
               /\ sched'[p] # sched[p])
              => /\ sched'[p].pc # "next"
                 /\ UNCHANGED <<now, croniter, tasks, runs, stages, jobs, workers,
                                requests, requested, invoked>>
       /\ \A t \in Tasks :
              LET res == create_run_for_task(t, << >>, NULL, Operator, TRUE, NoStatus)
              IN  /\ res.error = "ValueError"
                  /\ res.runs = runs /\ res.stages = stages /\ res.jobs = jobs
      ]_vars

\* a trigger request ended with the no-targets error
C7_TriggerWithoutTargets ==
    \E i \in DOMAIN requests :
        requests[i].action = "trigger" /\ requests[i].pc = "no_targets"

\* C8: a job is success only with exit_code 0, and a job that ended without an
\* exit code (an infra failure) is failed.
C8_SuccessOnlyOnExitZero ==
    \A j \in DOMAIN jobs :
        /\ jobs[j].status = "success" => jobs[j].exit_code = 0
        /\ (jobs[j].status \in Terminal /\ jobs[j].exit_code = NULL)
               => jobs[j].status = "failed"

\* C9: a job's error_message is non-empty only with exit_code null; a job failed
\* on a non-null, non-zero exit_code has an empty error_message; a pending or
\* running job has exit_code null and an empty error_message.
C9_ErrorMessageOnlyWithoutExitCode ==
    \A j \in DOMAIN jobs :
        /\ jobs[j].error_message # "" => jobs[j].exit_code = NULL
        /\ (jobs[j].status = "failed" /\ jobs[j].exit_code \notin {NULL, 0})
               => jobs[j].error_message = ""
        /\ jobs[j].status \in {"pending", "running"}
               => jobs[j].exit_code = NULL /\ jobs[j].error_message = ""

\* one run holds a job failed on the connection and a job failed on its exit code
C9_BothFailureKinds ==
    \E r \in DOMAIN runs :
        /\ \E j \in JobsOfRun(r) :
               /\ jobs[j].status = "failed"
               /\ jobs[j].exit_code = NULL
               /\ jobs[j].error_message # ""
        /\ \E j \in JobsOfRun(r) :
               /\ jobs[j].status = "failed"
               /\ jobs[j].exit_code = 1
               /\ jobs[j].error_message = ""

\* C10: when a run or its stage is success or failed, every job of the run is
\* success or failed and has been to the executor, whatever the other jobs did.
C10_FinishedAfterEveryJob ==
    \A r \in DOMAIN runs :
        (\/ runs[r].status \in Terminal
         \/ \E s \in Range(StagesOf(r)) : stages[s].status \in Terminal)
        => \A j \in JobsOfRun(r) : jobs[j].status \in Terminal /\ invoked[j] >= 1

\* a finalized run whose first job failed on the connection and whose last job,
\* run after it, succeeded
C10_LaterJobRanAfterFailure ==
    \E r \in DOMAIN runs :
        /\ runs[r].status = "failed"
        /\ Cardinality(JobsOfRun(r)) = NumServers
        /\ \E j \in JobsOfRun(r) :
               /\ jobs[j].server = 1
               /\ jobs[j].status = "failed"
               /\ jobs[j].exit_code = NULL
        /\ \E j \in JobsOfRun(r) :
               /\ jobs[j].server = NumServers
               /\ jobs[j].status = "success"
               /\ invoked[j] = 1


C12_FinishedNotBeforeStarted ==
    \A r \in DOMAIN runs :
        runs[r].status \in Terminal =>
            /\ runs[r].started_at # NULL
            /\ runs[r].finished_at # NULL
            /\ runs[r].finished_at >= runs[r].started_at

\* a run ended after the clock had moved on from its start
C12_FinishedLater ==
    \E r \in DOMAIN runs :
        /\ runs[r].status \in Terminal
        /\ runs[r].started_at # NULL
        /\ runs[r].finished_at > runs[r].started_at


\* C13: once a run's started_at holds a value no step changes it, and once its
\* finished_at holds a value no step changes it.
C13_StampedOnce ==
    [][\A r \in DOMAIN runs :
           /\ runs[r].started_at # NULL => runs'[r].started_at = runs[r].started_at
           /\ runs[r].finished_at # NULL => runs'[r].finished_at = runs[r].finished_at
      ]_vars


\* C14: a retry_failed request on a run with K >= 1 failed jobs adds exactly one
\* run, of the same task, queued and manual, with a thread started for it, whose
\* jobs are one for each server of the K failed jobs and for no other server.
C14_RetryTargetsFailedServers ==
    [][\A r \in DOMAIN runs :
           LET K == {j \in JobsOfRun(r) : jobs[j].status = "failed"}
               n == Len(runs')
               made == {j \in DOMAIN jobs' : stages'[jobs'[j].stage].run = n}
           IN  (/\ Len(requests') = Len(requests) + 1
                /\ requests'[Len(requests')].action = "retry_failed"
                /\ requests'[Len(requests')].target = r
                /\ K # {})
               => /\ requests'[Len(requests')].pc = "done"
                  /\ n = Len(runs) + 1
                  /\ runs'[n].task = runs[r].task
                  /\ runs'[n].status = "queued"
                  /\ runs'[n].is_manual
                  /\ {jobs'[j].server : j \in made} = {jobs[j].server : j \in K}
                  /\ Cardinality(made) = Cardinality(K)
                  /\ Len(workers') = Len(workers) + 1
                  /\ workers'[Len(workers')] = NewWorker(n)
      ]_vars

\* a retry was made of a run with one job success and one job failed, and the
\* new run has a single job, for the failed job's server
C14_RetriedOneOfTwo ==
    \E i \in DOMAIN requests : \E n \in DOMAIN runs :
        LET r == requests[i].target
        IN  /\ requests[i].action = "retry_failed"
            /\ requests[i].pc = "done"
            /\ n > r
            /\ runs[r].status = "failed"
            /\ \E j \in JobsOfRun(r) : jobs[j].status = "success"
            /\ Cardinality(JobsOfRun(n)) = 1
            /\ \A j \in JobsOfRun(n) : \E k \in JobsOfRun(r) :
                   jobs[k].status = "failed" /\ jobs[k].server = jobs[j].server


\* C15: a retry_failed request on a run without a failed job ends with the
\* no-failed-targets outcome and adds no run, stage, job or thread; and every
\* retry_failed request leaves the run it was made on, that run's stage and
\* that run's jobs as they were, and gives that run no further job.
C15_RetryLeavesOriginal ==
    [][\A r \in DOMAIN runs :
           (/\ Len(requests') = Len(requests) + 1
            /\ requests'[Len(requests')].action = "retry_failed"
            /\ requests'[Len(requests')].target = r)
           => /\ (\A j \in JobsOfRun(r) : jobs[j].status # "failed")
                     => /\ requests'[Len(requests')].pc = "no_failed"
                        /\ UNCHANGED <<runs, stages, jobs, workers, tasks>>
              /\ runs'[r] = runs[r]
              /\ \A s \in Range(StagesOf(r)) : stages'[s] = stages[s]
              /\ \A j \in JobsOfRun(r) : jobs'[j] = jobs[j]
              /\ {j \in DOMAIN jobs' : stages'[jobs'[j].stage].run = r} = JobsOfRun(r)
      ]_vars

\* a retry of a run whose jobs all succeeded ended with no-failed-targets
C15_NothingToRetry ==
    \E i \in DOMAIN requests :
        /\ requests[i].action = "retry_failed"
        /\ requests[i].pc = "no_failed"
        /\ runs[requests[i].target].status = "success"
        /\ Len(runs) = 1


\* C16: a trigger request on a task with targets ends rejected as already active,
\* with no run, stage, job or thread added, when the task has a queued or running
\* run; when it has none (scheduled runs do not count) it ends having added one
\* run of the task, queued and manual, with a thread started for it.
C16_TriggerRejectedWhileActive ==
    [][\A i \in DOMAIN requests' :
           LET before == IF i \in DOMAIN requests THEN requests[i].pc ELSE "new"
               req == requests'[i]
               t == req.target
               n == Len(runs')
           IN  (/\ req.action = "trigger"
                /\ req.pc \in {"active", "done", "no_targets"}
                /\ before # req.pc
                /\ tasks[t].targets # << >>)
               => IF has_active_run(t)
                  THEN /\ req.pc = "active"
                       /\ UNCHANGED <<runs, stages, jobs, workers>>
                  ELSE /\ req.pc = "done"
                       /\ n = Len(runs) + 1
                       /\ runs'[n].task = t
                       /\ runs'[n].status = "queued"
                       /\ runs'[n].is_manual
                       /\ workers' = Append(workers, NewWorker(n))
      ]_vars

\* C17: with one scheduler pass at a time, of the runs of a task that the cron
\* sweep or a trigger request created, at most one is queued or running.
C17_OneActiveRunPerTask ==
    \A t \in Tasks :
        Cardinality({r \in DOMAIN runs :
            /\ runs[r].task = t
            /\ runs[r].status \in {"queued", "running"}
            /\ \/ ~runs[r].is_manual
               \/ \E i \in DOMAIN requests :
                      requests[i].action = "trigger" /\ requests[i].created = r})
            <= 1


\* C18: a scheduler pass that has found a cron task due and without an active
\* run creates the task's run without looking again, whatever another pass has
\* created since; so with two overlapping passes one task has two runs for one
\* next_run_at.
C18_FiringPassCreatesItsRun ==
    [][\A p \in Commands :
           (/\ sched[p].pc = "fire"
            /\ sched'[p] # sched[p]
            /\ tasks[Head(sched[p].taskq).id].targets # << >>)
           => /\ sched'[p].pc = "next"
              /\ Len(runs') = Len(runs) + 1
              /\ runs'[Len(runs')].task = Head(sched[p].taskq).id
              /\ ~runs'[Len(runs')].is_manual
      ]_vars

\* both passes have created a run of the same task, each on the same
\* next_run_at it read as due, and neither has yet stored the next one
C18_DoubleFired ==
    \E t \in Tasks :
        /\ \A p \in Commands :
               /\ sched[p].pc = "next"
               /\ Head(sched[p].taskq).id = t
               /\ Head(sched[p].taskq).next_run_at = tasks[t].next_run_at
               /\ Head(sched[p].taskq).next_run_at <= sched[p].now
        /\ Cardinality({r \in DOMAIN runs : runs[r].task = t /\ ~runs[r].is_manual}) = 2


\* C19: every next_run_at that a scheduler pass or a dispatcher thread stores
\* for a cron task in place of an earlier one is greater than the one it
\* replaces and is the cron expression's next time after the one it replaces.
C19_CadenceFromPrevious ==
    [][\A t \in Tasks :
           LET previous == tasks[t].next_run_at
               stored ==
                   \/ tasks'[t].next_run_at # previous
                   \/ \E p \in Commands :
                          /\ sched[p].pc = "next"
                          /\ Head(sched[p].taskq).id = t
                          /\ sched'[p] # sched[p]
                   \/ \E w \in DOMAIN workers :
                          /\ workers[w].pc = "mark"
                          /\ runs[workers[w].run].task = t
                          /\ workers'[w] # workers[w]
           IN  (is_periodic(tasks[t]) /\ previous # NULL /\ stored)
               => /\ tasks'[t].next_run_at > previous
                  /\ tasks'[t].next_run_at =
                         calculate_next_run(tasks[t].cron_expression, previous)
      ]_vars


\* C20: a scheduler pass that comes to create the run of an enabled cron task
\* which is due (next_run_at set and not after the pass's clock) and has no
\* queued or running run adds exactly one run: queued, not manual, without
\* owner, with one pending job for each target of the task and a thread started
\* for it; and the next_run_at the pass then stores is the cron expression's
\* next time after the next_run_at that was due, not after the clock.
C20_DueTaskFiredOnce ==
    [][\A p \in Commands :
           LET task == Head(sched[p].taskq)
               t == task.id
               n == Len(runs')
               made == {j \in DOMAIN jobs' : stages'[jobs'[j].stage].run = n}
           IN  /\ (/\ sched[p].pc = "fire"
                   /\ sched'[p] # sched[p]
                   /\ tasks[t].is_enabled
                   /\ tasks[t].next_run_at # NULL
                   /\ tasks[t].next_run_at <= sched[p].now
                   /\ tasks[t].targets # << >>
                   /\ ~has_active_run(t))
                  => /\ sched'[p].pc = "next"
                     /\ n = Len(runs) + 1
                     /\ runs'[n].task = t
                     /\ runs'[n].status = "queued"
                     /\ ~runs'[n].is_manual
                     /\ runs'[n].triggered_by = NULL
                     /\ {jobs'[j].server : j \in made} = Range(tasks[t].targets)
                     /\ Cardinality(made) = Len(tasks[t].targets)
                     /\ \A j \in made : jobs'[j].status = "pending"
                     /\ workers' = Append(workers, NewWorker(n))
                     /\ UNCHANGED tasks
               /\ (sched[p].pc = "next" /\ sched'[p] # sched[p])
                  => /\ tasks'[t].next_run_at =
                            calculate_next_run(task.cron_expression, task.next_run_at)
                     /\ UNCHANGED <<runs, stages, jobs, workers>>
      ]_vars

\* a late pass is through: the task's one run is queued, and the next_run_at
\* stored is the next time after the one that was due, not after the clock
C20_LatePassKeptCadence ==
    \E t \in Tasks :
        /\ sched["pass1"].pc = "idle"
        /\ tasks[t].next_run_at = calculate_next_run(tasks[t].cron_expression, CronPeriod)
        /\ tasks[t].next_run_at <= now
        /\ Len(runs) = 1
        /\ runs[1].task = t
        /\ runs[1].status = "queued"
        /\ ~runs[1].is_manual

\* C21: when a scheduler pass comes to a cron task that is enabled, has no
\* next_run_at and no queued or running run, it stores as next_run_at the cron
\* expression's next time after the pass's clock, creates no run, starts no
\* thread, and is through with that task.
C21_UnarmedTaskIsArmedNotFired ==
    [][\A p \in Commands :
           LET task == Head(sched[p].taskq)
               t == task.id
           IN  (/\ sched[p].pc = "B"
                /\ sched'[p] # sched[p]
                /\ is_periodic(tasks[t])
                /\ tasks[t].is_enabled
                /\ tasks[t].next_run_at = NULL
                /\ ~has_active_run(t))
               => /\ tasks'[t].next_run_at =
                         calculate_next_run(tasks[t].cron_expression, sched[p].now)
                  /\ UNCHANGED <<runs, stages, jobs, workers>>
                  /\ sched'[p].pc \in {"B", "idle"}
                  /\ \A i \in DOMAIN sched'[p].taskq : sched'[p].taskq[i].id # t
      ]_vars

\* a pass has armed a task that had no next_run_at, and no run was created
C21_ArmedWithoutRun ==
    \E t \in Tasks :
        /\ croniter
        /\ tasks[t].is_enabled
        /\ tasks[t].next_run_at = calculate_next_run(tasks[t].cron_expression, now)
        /\ tasks[t].next_run_at > CronPeriod
        /\ sched["pass1"].pc = "idle"
        /\ runs = << >>

\* C22: a scheduler pass that comes to a task which is disabled, is not a cron
\* task, has a queued or running run, or has a next_run_at later than the clock
\* does not go on to fire it and leaves the task's row as it is; and a pass
\* that comes to create the run of such a task creates no run and starts no
\* thread.
C22_BlockedTaskNotFired ==
    [][\A p \in Commands :
           LET t == Head(sched[p].taskq).id
           IN  (/\ sched[p].pc \in {"B", "fire"}
                /\ sched'[p] # sched[p]
                /\ \/ ~tasks[t].is_enabled
                   \/ ~is_periodic(tasks[t])
                   \/ has_active_run(t)
                   \/ tasks[t].next_run_at # NULL /\ tasks[t].next_run_at > now)
               => /\ tasks'[t] = tasks[t]
                  /\ sched'[p].pc \notin {"fire", "next"}
                  /\ UNCHANGED <<runs, stages, jobs, workers>>
      ]_vars

\* C23: where an enabled cron task is due, has no queued or running run and has
\* no targets, so that the creation of its run fails, a scheduler pass leaves
\* the tables and starts the threads exactly as a pass whose query did not
\* return that task: no run of the task is created, its next_run_at stays, and
\* the other tasks of the pass are armed and fired all the same.
C23_CreationErrorIsolated ==
    \A f \in DOMAIN tasks :
        (/\ is_periodic(tasks[f])
         /\ tasks[f].is_enabled
         /\ tasks[f].next_run_at # NULL
         /\ tasks[f].next_run_at <= now
         /\ ~has_active_run(f)
         /\ tasks[f].targets = << >>)
        => LET swept == dispatch_scheduled_runs(Tables, now)
               others == cron_rows([swept EXCEPT !.tasks[f].is_enabled = FALSE])
               absent == dispatch_cron_tasks(swept, others, now)
               present == handle(Tables, now)
           IN  /\ present = absent
               /\ present.tasks[f] = tasks[f]
               /\ \A r \in DOMAIN present.runs : present.runs[r].task = f => r \in DOMAIN runs

\* a pass has fired the due task with targets and has left the due task
\* without targets as it was
C23_OtherTaskFired ==
    \E f \in DOMAIN tasks, g \in DOMAIN tasks :
        /\ tasks[f].targets = << >>
        /\ tasks[f].next_run_at = CronPeriod
        /\ tasks[f].next_run_at <= now
        /\ \A r \in DOMAIN runs : runs[r].task # f
        /\ tasks[g].next_run_at > now
        /\ \E r \in DOMAIN runs :
               runs[r].task = g /\ runs[r].status = "queued" /\ ~runs[r].is_manual

\* C24: the runs a scheduler pass takes up are exactly those with status
\* scheduled whose scheduled_for is not after the clock; each run it promotes
\* has status scheduled and is due, is stored as queued, and its thread is
\* started in that step; a run with status scheduled whose scheduled_for is
\* after the clock stays scheduled unless it is cancelled; and no run that has
\* a scheduled_for has a started_at before it.
C24_SweepAPromotesDueScheduledRuns ==
    [][/\ \A p \in Commands :
              /\ (sched[p].pc = "idle" /\ sched'[p] # sched[p])
                 => Range(sched'[p].runq) =
                        {r \in DOMAIN runs : /\ runs[r].status = "scheduled"
                                             /\ runs[r].scheduled_for # NULL
                                             /\ runs[r].scheduled_for <= now}
              /\ (sched[p].pc = "A" /\ sched[p].runq # << >> /\ sched'[p] # sched[p])
                 => LET r == Head(sched[p].runq)
                    IN  /\ runs[r].status = "scheduled"
                        /\ runs[r].scheduled_for # NULL
                        /\ runs[r].scheduled_for <= now
                        /\ runs'[r].status = "queued"
                        /\ workers' = Append(workers, NewWorker(r))
       /\ \A r \in DOMAIN runs :
              (/\ runs[r].status = "scheduled"
               /\ runs[r].scheduled_for # NULL
               /\ runs[r].scheduled_for > now)
              => runs'[r].status \in {"scheduled", "cancelled"}
       /\ \A r \in DOMAIN runs' :
              (runs'[r].scheduled_for # NULL /\ runs'[r].started_at # NULL)
              => runs'[r].started_at >= runs'[r].scheduled_for
      ]_vars

\* C25: once the thread of a run has been started, the run comes to status
\* success or failed with every one of its jobs at success or failed.
C25_DispatchedRunFinishes ==
    \A r \in 1..MaxRuns :
        (\E w \in DOMAIN workers : workers[w].run = r)
        ~> (/\ r \in DOMAIN runs
            /\ runs[r].status \in Terminal
            /\ \A j \in JobsOfRun(r) : jobs[j].status \in Terminal)

\* C26: the step in which a dispatcher thread writes the task's last_run_at
\* stores the finished_at of the thread's run, and after every step each
\* task's last_run_at is unset or is the finished_at of a run of that task
\* whose status is success or failed.
C26_LastRunIsAFinishedRun ==
    [][/\ \A w \in DOMAIN workers :
              (workers[w].pc = "mark" /\ workers'[w].pc = "done")
              => LET r == workers[w].run
                 IN  tasks'[runs[r].task].last_run_at = runs[r].finished_at
       /\ \A t \in Tasks :
              \/ tasks'[t].last_run_at = NULL
              \/ \E r \in DOMAIN runs' :
                     /\ runs'[r].task = t
                     /\ runs'[r].status \in Terminal
                     /\ runs'[r].finished_at = tasks'[t].last_run_at
      ]_vars

\* C27: the step in which a dispatcher thread writes the last and next run of
\* a cron task stores as next_run_at the cron expression's next time after the
\* clock of that step, whoever created the thread's run.
C27_NextRunFromFinalization ==
    [][\A w \in DOMAIN workers :
           (workers[w].pc = "mark" /\ workers'[w].pc = "done")
           => LET t == runs[workers[w].run].task
              IN  is_periodic(tasks[t])
                  => tasks'[t].next_run_at =
                         calculate_next_run(tasks[t].cron_expression, now)
      ]_vars

\* the run a retry created for a cron task has been finalized after the clock
\* moved, and the task's next_run_at is the next time after that clock
C27_RetryFinalized ==
    \E i \in DOMAIN requests, w \in DOMAIN workers :
        LET r == requests[i].created
        IN  /\ requests[i].action = "retry_failed"
            /\ r \in DOMAIN runs
            /\ workers[w].run = r
            /\ workers[w].pc = "done"
            /\ runs[r].status \in Terminal
            /\ is_periodic(tasks[runs[r].task])
            /\ now > 0
            /\ tasks[runs[r].task].last_run_at = now
            /\ tasks[runs[r].task].next_run_at =
                   calculate_next_run(tasks[runs[r].task].cron_expression, now)

\* C28: the run create_run_for_task creates has the status it was given, and
\* when it was given none it has status scheduled if scheduled_for is set and
\* later than the clock, and queued if scheduled_for is unset, equal to the
\* clock or earlier.
C28_InitialStatus ==
    \A t \in Tasks, scheduled_for \in ScheduledForArguments, status \in StatusArguments :
        LET res == create_run_for_task(t, NoServers, scheduled_for, Operator, TRUE, status)
            created == res.runs[res.run].status
        IN  res.error = ""
            => /\ status # NoStatus => created = status
               /\ (status = NoStatus /\ scheduled_for # NULL /\ scheduled_for > now)
                  => created = "scheduled"
               /\ (status = NoStatus /\ scheduled_for = NULL) => created = "queued"
               /\ (status = NoStatus /\ scheduled_for # NULL /\ scheduled_for = now)
                  => created = "queued"
               /\ (status = NoStatus /\ scheduled_for # NULL /\ scheduled_for < now)
                  => created = "queued"

\* runs were created with a scheduled_for that had passed, which is queued,
\* and with a given status against the rule: scheduled without scheduled_for
C28_PastAndGiven ==
    \E r \in DOMAIN runs, q \in DOMAIN runs :
        /\ runs[r].scheduled_for # NULL
        /\ runs[r].scheduled_for < now
        /\ runs[r].status = "queued"
        /\ runs[q].scheduled_for = NULL
        /\ runs[q].status = "scheduled"
        /\ q < r

\* C29: while the cron evaluator returns no next time for a task (its
\* expression is empty or croniter is missing), no step changes the task's
\* next_run_at and no step creates a run of the task.
C29_NoNextTimePausesTask ==
    [][\A t \in Tasks :
           (/\ is_periodic(tasks[t])
            /\ calculate_next_run(tasks[t].cron_expression, now) = NULL)
           => /\ tasks'[t].next_run_at = tasks[t].next_run_at
              /\ \A r \in DOMAIN runs' : runs'[r].task = t => r \in DOMAIN runs
      ]_vars

\* C30: a scheduler pass that follows a scheduler pass at the same clock
\* value, with no step of anything else in between, leaves every task, run,
\* stage and job row as the first pass left it and starts no thread.
C30_SecondPassChangesNothing ==
    LET first == [handle(Tables, now) EXCEPT !.threads = << >>]
    IN  handle(first, now) = first

\* a pass has fired a task and, the evaluator returning nothing, has left it
\* due: a second pass at this clock value finds the run it would fire queued
C30_FiredAndStillDue ==
    \E r \in DOMAIN runs, w \in DOMAIN workers :
        /\ ~runs[r].is_manual
        /\ runs[r].status = "queued"
        /\ workers[w].run = r
        /\ workers[w].pc = "start"
        /\ tasks[runs[r].task].is_enabled
        /\ tasks[runs[r].task].next_run_at # NULL
        /\ tasks[runs[r].task].next_run_at <= now
        /\ handle(Tables, now) = Tables

\* C31: a scheduler pass that has begun comes to its end although no executor
\* call ever returns (or it stands before creating a run with MaxRuns runs
\* stored, where the runs table of the model is full).
C31_PassEnds ==
    (sched["pass1"].pc # "idle")
    ~> (\/ sched["pass1"].pc = "idle"
        \/ sched["pass1"].pc = "fire" /\ Len(runs) = MaxRuns)

\* the pass has ended while the run it promoted is running with a job in the
\* executor, or the run it fired is still queued with its thread not yet begun
C31_EndedBeforeItsRuns ==
    /\ sched["pass1"].pc = "idle"
    /\ \E w \in DOMAIN workers :
           LET r == workers[w].run
           IN  /\ StartedByCommand(w)
               /\ \/ /\ runs[r].status = "running"
                     /\ \E j \in JobsOfRun(r) : jobs[j].status = "running"
                     /\ runs[r].scheduled_for # NULL
                  \/ /\ runs[r].status = "queued"
                     /\ workers[w].pc = "start"
                     /\ ~runs[r].is_manual

\* C32: deleting a Server does not delete execution history: every Job, Stage
\* and Run that existed before the deletion exists after it, and every Run has
\* as many Jobs as before.
C32_DeletionKeepsHistory ==
    [][(\E s \in 1..NumServers : DeleteServer(s)) =>
           /\ \A j \in DOMAIN jobs : jobs[j] # DeletedJob => jobs'[j] # DeletedJob
           /\ stages' = stages
           /\ runs' = runs
           /\ \A r \in DOMAIN runs :
                  Cardinality(JobsOfRun(r))' = Cardinality(JobsOfRun(r))]_vars

\* C33: create_run records triggered_by only for an authenticated identity: the
\* run created for a signed-in user carries that user, the run created for an
\* anonymous identity or for none carries no triggered_by, and so does every
\* run a pass of the command creates.
C33_TriggeredByOnlyAuthenticated ==
    [][/\ \A t \in Tasks, triggered_by \in Identities, manual \in BOOLEAN :
              CreateRunAs(t, triggered_by, manual) =>
                  runs'[Len(runs')].triggered_by =
                      (IF triggered_by.is_authenticated THEN triggered_by.id ELSE NULL)
       /\ Handle => \A r \in DOMAIN runs' \ DOMAIN runs :
                        runs'[r].triggered_by = NULL]_vars

C33_SignedInAndAnonymous ==
    /\ \E r \in DOMAIN runs : runs[r].triggered_by = Colleague.id
    /\ \E r \in DOMAIN runs : runs[r].is_manual /\ runs[r].triggered_by = NULL

\* C34: within one dispatch of a run the jobs are executed one at a time in
\* ascending server order, each result stored before the next job starts: a
\* run with a single dispatcher thread has at most one running job, and a job
\* of it is running, success or failed only if every job of the same stage
\* with a smaller server address is success or failed.
C34_OneJobAtATimeInServerOrder ==
    \A r \in DOMAIN runs :
        Cardinality({w \in DOMAIN workers : workers[w].run = r}) <= 1 =>
            /\ Cardinality({j \in JobsOfRun(r) : jobs[j].status = "running"}) <= 1
            /\ \A j \in JobsOfRun(r) :
                   jobs[j].status \in {"running"} \cup Terminal =>
                       \A k \in JobsOf(jobs[j].stage) :
                           jobs[k].server < jobs[j].server =>
                               jobs[k].status \in Terminal

C34_SecondJobRunning ==
    \E r \in DOMAIN runs, j, k \in DOMAIN jobs :
        /\ Cardinality({w \in DOMAIN workers : workers[w].run = r}) = 1
        /\ {j, k} \subseteq JobsOfRun(r)
        /\ jobs[k].server < jobs[j].server
        /\ jobs[k].status = "failed"
        /\ jobs[j].status = "running"

\* C35: every run with status queued has a dispatcher launched for it: under
\* fair scheduling every queued run leaves queued in the end, whichever entry
\* point created it.
C35_QueuedRunLeavesQueued ==
    \A r \in 1..MaxRuns :
        (r \in DOMAIN runs /\ runs[r].status = "queued")
        ~> (r \in DOMAIN runs /\ runs[r].status # "queued")

\* C36: two dispatcher threads started for the same queued run do not both
\* execute it: the executor is called at most once for every job, and at most
\* one thread of a run gets past the status test to write the run's started_at,
\* its job results and its final status.
C36_OneThreadExecutesTheRun ==
    /\ \A j \in DOMAIN jobs : invoked[j] <= 1
    /\ \A r \in DOMAIN runs :
           Cardinality({w \in DOMAIN workers :
                           /\ workers[w].run = r
                           /\ workers[w].pc \notin {"start", "skipped", "loaded"}}) <= 1

\* C37: the dispatcher and the scheduler write only last_run_at and next_run_at
\* of a task, so what the operator changed while a run was dispatched is never
\* overwritten, and a toggle changes only is_enabled: every step of a
\* dispatcher thread or of a pass leaves every other field of every task as
\* the step found it, and a toggle turns the switch of its task and leaves
\* every other field and every other task alone.
C37_TaskWritesKeepOtherFields ==
    [][/\ (Dispatcher \/ SweepB("pass1")) =>
              \A t \in Tasks :
                  tasks'[t] = [tasks[t] EXCEPT !.last_run_at = tasks'[t].last_run_at,
                                               !.next_run_at = tasks'[t].next_run_at]
       /\ \A t \in Tasks :
              Toggle(t) =>
                  tasks' = [tasks EXCEPT ![t].is_enabled = ~tasks[t].is_enabled]]_vars

C37_ToggledWhileDispatched ==
    \E w \in DOMAIN workers :
        LET r == workers[w].run
            t == runs[r].task
        IN  /\ workers[w].pc = "done"
            /\ ~tasks[t].is_enabled
            /\ tasks[t].last_run_at = runs[r].finished_at
            /\ tasks[t].next_run_at > runs[r].finished_at

\* C38: for a one-off task, finalizing any of its runs clears the task's
\* next_run_at, even if another run of the task is still scheduled for a future
\* time: the step in which a dispatcher thread writes the task of a finalized
\* run leaves a one-off task without next_run_at.
C38_OneOffFinalizationClearsNextRun ==
    [][\A w \in DOMAIN workers :
           (MarkLastRun(w) /\ ~is_periodic(tasks[runs[workers[w].run].task]))
           => tasks'[runs[workers[w].run].task].next_run_at = NULL]_vars

C38_ClearedWithRunStillScheduled ==
    \E w \in DOMAIN workers, other \in DOMAIN runs :
        LET r == workers[w].run
            t == runs[r].task
        IN  /\ workers[w].pc = "done"
            /\ ~is_periodic(tasks[t])
            /\ tasks[t].next_run_at = NULL
            /\ other # r
            /\ runs[other].task = t
            /\ runs[other].status = "scheduled"
            /\ runs[other].scheduled_for > now

====
